---------------------------- MODULE Spec2Model ----------------------------
(***************************************************************************)
(* A model of src/bot.py: the daily KOSPI screening run.                   *)
(*                                                                         *)
(*   main                      one run: reference date, universe, levels,  *)
(*                             persistence, position alerts, error path    *)
(*   yesterday_trading_date    the benchmark probe loop                    *)
(*   build_universe            market-cap / price / liquidity filter       *)
(*   calc_levels               pivot, ATR and EMA bands, score             *)
(*   write_universe_and_top10  snapshot table, ranking, top-10 table       *)
(*   check_positions_and_alert join of positions with the snapshot         *)
(*                                                                         *)
(* Numbers.  Python floats are modelled by exact rationals kept as scaled  *)
(* integers (the scale is named at each definition); int(x) is truncation  *)
(* toward zero.  score is kept in tenths (13 stands for 1.3).  Texts are   *)
(* sequences of one-character strings, so that formatting a band and       *)
(* parsing it back are two different computations.                        *)
(*                                                                         *)
(* Configuration.  TOP_N, ATR_N and EMA_N are read from the environment    *)
(* (src/bot.py:21-24); the model runs the program under a small            *)
(* configuration of them, because exact EMA arithmetic over 21 bars does   *)
(* not fit TLC's integers and a 200-ticker universe does not fit a state   *)
(* space.  MIN_TRADING_VALUE is counted in units of 10^6 won.              *)
(***************************************************************************)
EXTENDS Integers, Sequences, FiniteSets, TLC

VARIABLES
    pc,             \* position of main (or of the operation under study)
    probed,         \* the benchmark's answers to the probes
    ref,            \* reference date, as a number of days before today
    cap,            \* market data handed to build_universe
    uni,            \* the universe: tickers by market cap descending
    idx,            \* main: number of universe tickers already levelled
    df,             \* provider's answer to calc_levels' bar query
    lv,             \* result of the last calc_levels call
    rows,           \* main: LevelRecords collected so far
    out,            \* write_universe_and_top10: the ranked rows
    sheetUniverse,  \* table "universe"
    sheetTop10,     \* table "top10_today"
    sheetPositions, \* table "positions"
    alerts,         \* check_positions_and_alert: alert lines
    sent,           \* messages accepted by the notification channel
    logged,         \* tags of the lines written by log()
    exc,            \* the exception in flight: the step that raised, or ""
    tgConfigured,   \* TELEGRAM_BOT_TOKEN and TELEGRAM_CHAT_ID are both set
    exitCode        \* process exit status, -1 while running

vars == <<pc, probed, ref, cap, uni, idx, df, lv, rows, out,
          sheetUniverse, sheetTop10, sheetPositions, alerts, sent, logged,
          exc, tgConfigured, exitCode>>

-----------------------------------------------------------------------------
(* Configuration, src/bot.py:20-25 *)

MAX_PRICE == 150000
TOP_N == 2
MIN_TRADING_VALUE == 5000
ATR_N == 2
EMA_N == 2
PRICE_BONUS == 100000

-----------------------------------------------------------------------------
(* Arithmetic and text helpers *)

Max(a, b) == IF a >= b THEN a ELSE b

Min(a, b) == IF a <= b THEN a ELSE b

Abs(a) == IF a >= 0 THEN a ELSE -a

\* int(n/d) for d > 0: Python's int() truncates toward zero
Trunc(n, d) == IF n >= 0 THEN n \div d ELSE -((-n) \div d)

RECURSIVE Pow(_, _)
Pow(b, e) == IF e = 0 THEN 1 ELSE b * Pow(b, e - 1)

RECURSIVE SumSeq(_)
SumSeq(s) == IF s = <<>> THEN 0 ELSE Head(s) + SumSeq(Tail(s))

DigitChars == <<"0", "1", "2", "3", "4", "5", "6", "7", "8", "9">>

RECURSIVE FmtNat(_)
FmtNat(n) ==
    IF n < 10 THEN <<DigitChars[n + 1]>>
    ELSE FmtNat(n \div 10) \o <<DigitChars[(n % 10) + 1]>>

\* f"{n}" of an int
FmtInt(n) == IF n < 0 THEN <<"-">> \o FmtNat(-n) ELSE FmtNat(n)

\* f"{int(lo)}~{int(hi)}"
FmtBand(lo, hi) == FmtInt(lo) \o <<"~">> \o FmtInt(hi)


IsDigit(ch) == \E d \in 1..10 : DigitChars[d] = ch

DigitVal(ch) == (CHOOSE d \in 1..10 : DigitChars[d] = ch) - 1

RECURSIVE NatOf(_)
NatOf(s) ==
    IF s = <<>> THEN 0
    ELSE NatOf(SubSeq(s, 1, Len(s) - 1)) * 10 + DigitVal(s[Len(s)])

RECURSIVE LStrip(_)
LStrip(s) == IF s # <<>> /\ Head(s) = " " THEN LStrip(Tail(s)) ELSE s

RECURSIVE RStrip(_)
RStrip(s) ==
    IF s # <<>> /\ s[Len(s)] = " " THEN RStrip(SubSeq(s, 1, Len(s) - 1)) ELSE s

\* str.strip()
Strip(s) == RStrip(LStrip(s))

\* str.split(sep): the parts between the separators, in order
RECURSIVE Split(_, _)
Split(s, sep) ==
    IF \A i \in 1..Len(s) : s[i] # sep THEN <<s>>
    ELSE LET k == CHOOSE i \in 1..Len(s) :
                      s[i] = sep /\ \A j \in 1..(i - 1) : s[j] # sep
         IN  <<SubSeq(s, 1, k - 1)>> \o Split(SubSeq(s, k + 1, Len(s)), sep)

\* int(text): surrounding blanks, an optional sign, then digits; ok = FALSE
\* stands for ValueError
ParseInt(s) ==
    LET t    == Strip(s)
        sgn  == t # <<>> /\ Head(t) \in {"+", "-"}
        body == IF sgn THEN Tail(t) ELSE t
    IN  IF body # <<>> /\ \A i \in 1..Len(body) : IsDigit(body[i])
        THEN [ok |-> TRUE,
              v  |-> IF sgn /\ Head(t) = "-" THEN -NatOf(body) ELSE NatOf(body)]
        ELSE [ok |-> FALSE, v |-> 0]

-----------------------------------------------------------------------------
(* calc_levels, src/bot.py:188-233.  A bar is [high, low, close]; the      *)
(* provider's answer is [kind |-> "raise"], [kind |-> "none"] (None) or    *)
(* [kind |-> "bars", bars |-> <<...>>].                                    *)

\* tr[i], line 206, for i >= 2 (tr[1] is NaN: close.shift(1) has no value)
TrueRange(bars, i) ==
    LET prev == bars[i - 1].close
    IN  Max(bars[i].high - bars[i].low,
            Max(Abs(bars[i].high - prev), Abs(bars[i].low - prev)))

\* tr.rolling(ATR_N).mean().iloc[-1] is NaN unless the last ATR_N rows all
\* have a true range
AtrIsNaN(bars) == Len(bars) - ATR_N + 1 < 2

\* ATR_N * atr
AtrSum(bars) ==
    SumSeq([k \in 1..ATR_N |-> TrueRange(bars, Len(bars) - ATR_N + k)])

\* close.ewm(span=EMA_N).mean().iloc[-1] (adjust=True): the closes weighted
\* by ((EMA_N-1)/(EMA_N+1))^age; ema = EmaNum / EmaDen
EmaWeight(n, j) == Pow(EMA_N - 1, n - j) * Pow(EMA_N + 1, j - 1)

EmaNum(bars) ==
    SumSeq([j \in 1..Len(bars) |-> EmaWeight(Len(bars), j) * bars[j].close])

EmaDen(bars) == SumSeq([j \in 1..Len(bars) |-> EmaWeight(Len(bars), j)])

\* lines 213-214 times D: <<lo, hi>> of ema - 1.0*atr, ema - 0.5*atr (E is
\* ema*D, A is 0.5*atr*D)
BuyAtr(E, A) == <<E - 2 * A, E - A>>

SellAtr(E, A) == <<E + A, E + 2 * A>>

\* lines 223-225, in tenths
ScoreBonusBelowOnly(in_atr, in_pivot, c) ==
    (IF in_atr /\ in_pivot THEN 10 ELSE IF in_atr \/ in_pivot THEN 5 ELSE 0)
    + (IF c < PRICE_BONUS THEN 3 ELSE 0)

Score(in_atr, in_pivot, c) ==
    (IF in_atr /\ in_pivot THEN 10 ELSE IF in_atr \/ in_pivot THEN 5 ELSE 0)
    + (IF c <= PRICE_BONUS THEN 3 ELSE 0)

\* lines 196-233 for a series long enough; D is the common denominator of the
\* ATR bands, the pivots are kept times 3
LevelRecord(tkr, bars) ==
    LET h   == bars[Len(bars)].high
        l   == bars[Len(bars)].low
        c   == bars[Len(bars)].close
        pp3 == h + l + c
        s1  == 2 * pp3 - 3 * h
        r1  == 2 * pp3 - 3 * l
        s2  == pp3 - 3 * (h - l)
        r2  == pp3 + 3 * (h - l)
        A   == AtrSum(bars) * EmaDen(bars)
        E   == EmaNum(bars) * 2 * ATR_N
        D   == EmaDen(bars) * 2 * ATR_N
        atr_buy  == BuyAtr(E, A)
        atr_sell == SellAtr(E, A)
        stopAtr  == E - 3 * A
        stop     == IF stopAtr * 3 < s2 * D THEN Trunc(stopAtr, D)
                    ELSE Trunc(s2, 3)
        in_atr   == c * D >= atr_buy[1] /\ c * D <= atr_buy[2]
        in_pivot == 3 * c >= s2 /\ 3 * c <= s1
    IN  [ticker |-> tkr, name |-> tkr, close |-> c,
         buy_pivot  |-> FmtBand(Trunc(s2, 3), Trunc(s1, 3)),
         sell_pivot |-> FmtBand(Trunc(r1, 3), Trunc(r2, 3)),
         buy_atr    |-> FmtBand(Trunc(atr_buy[1], D), Trunc(atr_buy[2], D)),
         sell_atr   |-> FmtBand(Trunc(atr_sell[1], D), Trunc(atr_sell[2], D)),
         stop |-> stop,
         atr |-> <<AtrSum(bars), ATR_N>>,
         ema |-> <<EmaNum(bars), EmaDen(bars)>>,
         score |-> Score(in_atr, in_pivot, c),
         in_atr_buy |-> in_atr, in_pivot_buy |-> in_pivot]

\* The whole function.  A raising fetch is not caught (line 192); None or a
\* short series returns None (193-194); a NaN atr makes int() raise at line 230.
calc_levels(tkr, resp) ==
    IF resp.kind = "raise" THEN [kind |-> "raise"]
    ELSE IF resp.kind = "none" THEN [kind |-> "none"]
    ELSE IF Len(resp.bars) < EMA_N + 1 THEN [kind |-> "none"]
    ELSE IF AtrIsNaN(resp.bars) THEN [kind |-> "raise"]
    ELSE [kind |-> "rec", rec |-> LevelRecord(tkr, resp.bars)]

-----------------------------------------------------------------------------
(* The ranking of write_universe_and_top10, src/bot.py:254-256 *)

\* .head(10), line 254
TOP10_ROWS == 10

\* a sorts strictly before b under ["score", "close"], ascending=[False, False]
SortsBefore(a, b) ==
    \/ a.score > b.score
    \/ a.score = b.score /\ a.close > b.close

\* The number of rows of a sorted frame that stay in front of a new row r
RECURSIVE KeptBeforeUnstable(_, _)
KeptBeforeUnstable(sorted, r) ==
    IF sorted = <<>> \/ ~SortsBefore(Head(sorted), r) THEN 0
    ELSE 1 + KeptBeforeUnstable(Tail(sorted), r)

\* sort_values on several columns is a lexsort: rows equal on every key keep
\* their input order, so a later row goes behind its equals
RECURSIVE KeptBefore(_, _)
KeptBefore(sorted, r) ==
    IF sorted = <<>> \/ SortsBefore(r, Head(sorted)) THEN 0
    ELSE 1 + KeptBefore(Tail(sorted), r)

RECURSIVE sort_values(_)
sort_values(frame) ==
    IF frame = <<>> THEN <<>>
    ELSE LET init == sort_values(SubSeq(frame, 1, Len(frame) - 1))
             r    == frame[Len(frame)]
             k    == KeptBefore(init, r)
         IN  SubSeq(init, 1, k) \o <<r>> \o SubSeq(init, k + 1, Len(init))

\* DataFrame.head(n)
head(frame, n) == SubSeq(frame, 1, Min(n, Len(frame)))

\* lines 254-256: sort, cut, select the top-10 columns, number the rows
RankedRows(frame) ==
    LET top == head(sort_values(frame), TOP10_ROWS)
    IN  [i \in 1..Len(top) |->
            [rank |-> i, ticker |-> top[i].ticker, name |-> top[i].name,
             close |-> top[i].close, buy_atr |-> top[i].buy_atr,
             sell_atr |-> top[i].sell_atr, buy_pivot |-> top[i].buy_pivot,
             sell_pivot |-> top[i].sell_pivot, stop |-> top[i].stop,
             score |-> top[i].score]]

-----------------------------------------------------------------------------
(* build_universe, src/bot.py:164-186.  The market-cap answer is            *)
(* [kind |-> "raise"] or [kind |-> "table", table |-> <<snapshot, ...>>,   *)
(* feeds |-> [ticker |-> answer to the ticker's 90-day bar query]]; a      *)
(* snapshot is [ticker, cap, close], tickers are unique as the provider's  *)
(* index is; a liquidity bar is [value, volume, close], with value in 10^6 *)
(* won and volume * close in the same unit.                                *)

\* max(TOP_N*2, 300), line 168: the floor of the over-fetch, scaled with the
\* ticker set the way TOP_N is
OVERFETCH_MIN == 3

\* len(df) < 25, line 177
MIN_BARS == 25

\* .tail(20), line 179
LIQ_WINDOW == 20

\* The rows of a frame sorted by market cap descending that stay in front of
\* a new row (rows of equal cap keep their order)
RECURSIVE CapKeptBefore(_, _)
CapKeptBefore(sorted, r) ==
    IF sorted = <<>> \/ r.cap > Head(sorted).cap THEN 0
    ELSE 1 + CapKeptBefore(Tail(sorted), r)

\* sort_values("시가총액", ascending=False)
RECURSIVE SortByCap(_)
SortByCap(frame) ==
    IF frame = <<>> THEN <<>>
    ELSE LET init == SortByCap(SubSeq(frame, 1, Len(frame) - 1))
             r    == frame[Len(frame)]
             k    == CapKeptBefore(init, r)
         IN  SubSeq(init, 1, k) \o <<r>> \o SubSeq(init, k + 1, Len(init))

\* LIQ_WINDOW * avg_val, line 179: traded value when the column is there, else
\* volume * close, over the trailing LIQ_WINDOW bars
TailValueSum(resp) ==
    LET bars  == resp.bars
        n     == Len(bars)
        first == Max(1, n - LIQ_WINDOW + 1)
    IN  SumSeq([k \in 1..(n - first + 1) |->
                   LET b == bars[first + k - 1]
                   IN  IF resp.hasValue THEN b.value ELSE b.volume * b.close])

\* The mean taken over every bar fetched instead of the trailing window
AllValueSum(resp) ==
    SumSeq([k \in 1..Len(resp.bars) |->
               IF resp.hasValue THEN resp.bars[k].value
               ELSE resp.bars[k].volume * resp.bars[k].close])

LiquidOverAllBars(resp) ==
    /\ resp.kind = "bars"
    /\ Len(resp.bars) >= MIN_BARS
    /\ AllValueSum(resp) >= MIN_TRADING_VALUE * Len(resp.bars)

\* lines 175-183: does the ticker pass the liquidity screen?  A raising
\* fetch, None and a short series all skip the ticker.
Liquid(resp) ==
    /\ resp.kind = "bars"
    /\ Len(resp.bars) >= MIN_BARS
    /\ LET total == TailValueSum(resp)
       IN  total # 0 /\ total >= MIN_TRADING_VALUE * LIQ_WINDOW

\* The whole function.  The market-cap fetch is not guarded (line 167).
build_universe(c) ==
    IF c.kind = "raise" THEN [kind |-> "raise"]
    ELSE LET ranked == head(SortByCap(c.table), Max(TOP_N * 2, OVERFETCH_MIN))
             priced == SelectSeq(ranked, LAMBDA r : r.close <= MAX_PRICE)
             ok     == {priced[i].ticker : i \in {j \in 1..Len(priced) :
                                                  Liquid(c.feeds[priced[j].ticker])}}
             kept   == SelectSeq(priced, LAMBDA r : r.ticker \in ok)
         IN  [kind |-> "ok", uni |-> head(SortByCap(kept), TOP_N)]

-----------------------------------------------------------------------------
(* yesterday_trading_date, src/bot.py:151-162.  A date is the number of     *)
(* days it lies before today; probes[i] is the benchmark's answer for the   *)
(* day i days back: "bars" (a non-empty frame), "empty" or "raise".         *)

\* range(1, 8), line 154
PROBE_DAYS == 7

ProbeResults == {"bars", "empty", "raise"}

\* today - timedelta(days=1), line 162
FallbackDate == 1

\* the loop from day i on
RECURSIVE ProbeFrom(_, _)
ProbeFrom(probes, i) ==
    IF i > PROBE_DAYS THEN FallbackDate
    ELSE IF probes[i] = "bars" THEN i
    ELSE ProbeFrom(probes, i + 1)

yesterday_trading_date(probes) == ProbeFrom(probes, 1)

\* ref.strftime("%Y-%m-%d"): the text of a date, one text per date
DateText(d) == <<"date", d>>

-----------------------------------------------------------------------------
(* The spreadsheet, as gspread presents it.  A worksheet is                 *)
(* [exists, header, records]: row 1 and the rows below it.                  *)

UNIVERSE_HEADERS ==
    <<"date", "ticker", "name", "close", "buy_pivot", "sell_pivot", "buy_atr",
      "sell_atr", "stop", "atr", "ema", "score", "in_atr_buy", "in_pivot_buy">>

TOP10_HEADERS ==
    <<"rank", "ticker", "name", "close", "buy_atr", "sell_atr", "buy_pivot",
      "sell_pivot", "stop", "score">>

POSITIONS_HEADERS == <<"ticker", "name", "qty", "avg_cost", "note">>

NoSheet == [exists |-> FALSE, header |-> <<>>, records |-> <<>>]

\* ensure_worksheet, lines 139-147: a missing worksheet is added with its
\* header row
ensure_worksheet(ws, headers) ==
    IF ws.exists THEN ws
    ELSE [exists |-> TRUE, header |-> headers, records |-> <<>>]

\* A clear() that leaves the rows in place
ClearKeepsRows(ws) == ws

\* Worksheet.clear()
Clear(ws) == [ws EXCEPT !.header = <<>>, !.records = <<>>]

\* Worksheet.update([columns] + values): writes the block from A1 down and
\* leaves the rows below the block as they were
Update(ws, columns, values) ==
    [ws EXCEPT !.header = columns,
               !.records = values \o SubSeq(ws.records, Len(values) + 1,
                                            Len(ws.records))]

\* Worksheet.get_all_records()
get_all_records(ws) == ws.records

\* lines 248-249: the frame of the rows with the date column put in front
DatedFrame(rs, d) ==
    [i \in 1..Len(rs) |-> [date |-> DateText(d)] @@ rs[i]]

-----------------------------------------------------------------------------
(* check_positions_and_alert, src/bot.py:266-313.  A cell read from the     *)
(* sheet is a number n/d, a text, or NaN (the value a left merge gives a    *)
(* position without a record).  A universe record is read by its date,      *)
(* ticker, name and sell_atr; sell_atr is a text.                           *)

NumCell(n, d) == [t |-> "num", n |-> n, d |-> d, s |-> <<>>]

TextCell(s) == [t |-> "text", n |-> 0, d |-> 1, s |-> s]

\* name_pos / name of a row that has none
NoName == 0

NaNText == <<"n", "a", "n">>

\* int(str(sell_atr).split("~")[1]), line 295; ok = FALSE stands for the
\* IndexError or ValueError that skips the row
SellHi(text) ==
    LET parts == Split(text, "~")
    IN  IF Len(parts) < 2 THEN [ok |-> FALSE, v |-> 0] ELSE ParseInt(parts[2])

\* float(text) for texts of blanks, a sign, digits and one point; ok = FALSE
\* stands for ValueError
ParseFloat(s) ==
    LET t     == Strip(s)
        sgn   == t # <<>> /\ Head(t) \in {"+", "-"}
        body  == IF sgn THEN Tail(t) ELSE t
        parts == Split(body, ".")
        whole == parts[1]
        frac  == IF Len(parts) = 2 THEN parts[2] ELSE <<>>
        digs  == whole \o frac
    IN  IF /\ Len(parts) <= 2
           /\ digs # <<>>
           /\ \A i \in 1..Len(digs) : IsDigit(digs[i])
        THEN [ok |-> TRUE,
              n  |-> IF sgn /\ Head(t) = "-" THEN -NatOf(digs) ELSE NatOf(digs),
              d  |-> Pow(10, Len(frac))]
        ELSE [ok |-> FALSE, n |-> 0, d |-> 1]

\* str(avg_cost).strip() != "": the text of a number is never blank
NotBlank(cell) == cell.t = "num" \/ Strip(cell.s) # <<>>

\* The comparison of line 304 made non-strict
FlaggedAtOrBelow(avg_cost_int, sell_hi) == avg_cost_int <= sell_hi

\* line 304
Flagged(avg_cost_int, sell_hi) == avg_cost_int < sell_hi

\* lines 298-303: int(float(avg_cost)), or None (ok = FALSE)
AvgCostInt(cell) ==
    IF ~NotBlank(cell) THEN [ok |-> FALSE, v |-> 0]
    ELSE IF cell.t = "num" THEN [ok |-> TRUE, v |-> Trunc(cell.n, cell.d)]
    ELSE LET f == ParseFloat(cell.s)
         IN  IF f.ok THEN [ok |-> TRUE, v |-> Trunc(f.n, f.d)]
             ELSE [ok |-> FALSE, v |-> 0]

\* pos.merge(latest, on="ticker", how="left"), line 288: the positions in
\* order, each once per record of its ticker, or once without a record
RECURSIVE Merge(_, _)
Merge(pos, latest) ==
    IF pos = <<>> THEN <<>>
    ELSE LET p     == Head(pos)
             match == SelectSeq(latest, LAMBDA u : u.ticker = p.ticker)
             joined ==
                 IF match = <<>>
                 THEN <<[ticker |-> p.ticker, name_pos |-> p.name,
                         name |-> NoName, avg_cost |-> p.avg_cost,
                         sell_atr |-> NaNText]>>
                 ELSE [i \in 1..Len(match) |->
                          [ticker |-> p.ticker, name_pos |-> p.name,
                           name |-> match[i].name, avg_cost |-> p.avg_cost,
                           sell_atr |-> match[i].sell_atr]]
         IN  joined \o Merge(Tail(pos), latest)

\* lines 290-308: the alert lines of the merged rows
RECURSIVE Alerts(_)
Alerts(merge) ==
    IF merge = <<>> THEN <<>>
    ELSE LET r    == Head(merge)
             hi   == SellHi(r.sell_atr)
             cost == AvgCostInt(r.avg_cost)
             line == [ticker |-> r.ticker,
                      name |-> IF r.name_pos # NoName THEN r.name_pos
                               ELSE r.name,
                      sell_hi |-> hi.v, avg_cost |-> cost.v]
         IN  (IF hi.ok /\ cost.ok /\ Flagged(cost.v, hi.v)
              THEN <<line>> ELSE <<>>) \o Alerts(Tail(merge))

\* lines 271-308 once the spreadsheet is open: "created" and "empty" are the
\* two early returns, "raise" is the KeyError of uni["date"] on a universe
\* sheet without records
check_positions(pos_ws, uni_ws, d) ==
    IF ~pos_ws.exists THEN [kind |-> "created", alerts |-> <<>>]
    ELSE IF get_all_records(pos_ws) = <<>> THEN [kind |-> "empty", alerts |-> <<>>]
    ELSE IF get_all_records(uni_ws) = <<>> THEN [kind |-> "raise", alerts |-> <<>>]
    ELSE LET pos    == get_all_records(pos_ws)
             recs   == get_all_records(uni_ws)
             dated  == SelectSeq(recs, LAMBDA u : u.date = DateText(d))
             latest == IF dated = <<>> THEN recs ELSE dated
         IN  [kind |-> "ok", alerts |-> Alerts(Merge(pos, latest))]

-----------------------------------------------------------------------------
(* send_telegram, src/bot.py:83-100.  The log is the sequence of the lines  *)
(* written, each by its tag; a message posted is kept with the answer it    *)
(* got: "200", another status, or "exception" when the request raised.      *)

TelegramAnswers == {"200", "400", "exception"}

\* the call's effect on the log and on the messages posted, and whether it
\* raised
send_telegram(text, answer, configured, lg, posted) ==
    IF ~configured
    THEN [logged |-> Append(lg, "WARN telegram"), sent |-> posted,
          raised |-> FALSE]
    ELSE [logged |-> lg \o <<"DEBUG telegram post">>
                        \o (IF answer = "exception" THEN <<>>
                            ELSE <<"DEBUG telegram resp">>)
                        \o (IF answer = "200" THEN <<>>
                            ELSE <<"ERROR telegram">>),
          sent   |-> Append(posted, [text |-> text, answer |-> answer]),
          raised |-> answer # "200"]

-----------------------------------------------------------------------------
(* main, src/bot.py:317-350 *)

\* `not rows` of line 334 taken for never true
NoRowsNever(rs) == FALSE

\* line 334
NoRows(rs) == rs = <<>>

\* The exit status when the error notification's exception is let through
\* as a success
ExitStatusByNotification(notify_raised) == IF notify_raised THEN 0 ELSE 1

\* lines 347-350: whatever send_telegram did, sys.exit(1)
ExitStatus(notify_raised) == 1

-----------------------------------------------------------------------------
(* Values the variables hold while an operation does not use them *)

NoResponse == [kind |-> "none"]

NoCap == [kind |-> "raise"]

-----------------------------------------------------------------------------
(* calc_levels on bounded bar series.  The earlier bars are well-formed; the *)
(* last bar takes every combination of its values, 0 included (a halted      *)
(* issue is reported with high = low = 0).                                   *)

Flat(p) == [high |-> p, low |-> p, close |-> p]

EarlyBars ==
    {Flat(PRICE_BONUS + 80), Flat(PRICE_BONUS + 40), Flat(PRICE_BONUS),
     [high |-> PRICE_BONUS + 40, low |-> PRICE_BONUS - 40, close |-> PRICE_BONUS]}

LastValues == {0, PRICE_BONUS - 40, PRICE_BONUS, PRICE_BONUS + 40}

LastBars == [high : LastValues, low : LastValues, close : LastValues]

SeriesLens == EMA_N..(EMA_N + 2)

BarSeries ==
    UNION {{e \o <<b>> : e \in [1..(n - 1) -> EarlyBars], b \in LastBars} :
           n \in SeriesLens}

Responses ==
    {[kind |-> "raise"], [kind |-> "none"]}
    \cup {[kind |-> "bars", bars |-> s] : s \in BarSeries}

InitLevels ==
    /\ pc = "calc"
    /\ df \in Responses
    /\ lv = NoResponse
    /\ probed = <<>> /\ ref = 1
    /\ cap = NoCap /\ uni = <<>> /\ idx = 0
    /\ rows = <<>> /\ out = <<>>
    /\ sheetUniverse = NoSheet /\ sheetTop10 = NoSheet /\ sheetPositions = NoSheet
    /\ alerts = <<>> /\ sent = <<>> /\ logged = <<>>
    /\ exc = "" /\ tgConfigured = FALSE /\ exitCode = -1

CalcLevels ==
    /\ pc = "calc"
    /\ lv' = calc_levels(1, df)
    /\ pc' = "done"
    /\ UNCHANGED <<probed, ref, cap, uni, idx, df, rows, out,
                   sheetUniverse, sheetTop10, sheetPositions, alerts, sent,
                   logged, exc, tgConfigured, exitCode>>

NextLevels == CalcLevels

SpecLevels == InitLevels /\ [][NextLevels]_vars

-----------------------------------------------------------------------------
(* Properties of calc_levels, under SpecLevels *)

\* The endpoints written in a band text "lo~hi"
BandLo(text) == ParseInt(Split(text, "~")[1]).v

BandHi(text) == ParseInt(Split(text, "~")[2]).v

BandOrdered(text) == BandLo(text) <= BandHi(text)

LevelsDone == pc = "done" /\ lv.kind = "rec"

LastBar == df.bars[Len(df.bars)]

WellFormed(b) == b.low <= b.close /\ b.close <= b.high

\* C5 as stated: every record of a series of at least EMA_N+1 bars has
\* lower endpoint <= upper endpoint in all four bands, whatever the last
\* bar's high, low and close are.
C5_AllBandsOrderedForAnyBar ==
    LevelsDone =>
        /\ BandOrdered(lv.rec.buy_pivot) /\ BandOrdered(lv.rec.sell_pivot)
        /\ BandOrdered(lv.rec.buy_atr) /\ BandOrdered(lv.rec.sell_atr)

\* Where the bands are ordered: the two ATR bands for every series, the two
\* pivot bands when the last bar has low <= close <= high
BandsOrderedOnWellFormedBars ==
    LevelsDone =>
        /\ BandOrdered(lv.rec.buy_atr) /\ BandOrdered(lv.rec.sell_atr)
        /\ WellFormed(LastBar) =>
               BandOrdered(lv.rec.buy_pivot) /\ BandOrdered(lv.rec.sell_pivot)

\* A record whose last bar is that of a halted issue (high = low = 0, close
\* the previous close): sell_pivot reads r1~r2 with r1 > r2
C5_Witness ==
    /\ LevelsDone
    /\ LastBar.high = 0 /\ LastBar.low = 0 /\ LastBar.close > 0
    /\ BandLo(lv.rec.sell_pivot) > BandHi(lv.rec.sell_pivot)

\* C6: score is 1.0 / 0.5 / 0.0 by the number of true flags, plus 0.3
\* exactly when close <= PRICE_BONUS; in_atr_buy is close in the closed
\* interval [ema - atr, ema - 0.5*atr] and in_pivot_buy is close in the
\* closed interval [s2, s1]; so score is one of 0.0 0.3 0.5 0.8 1.0 1.3.
\* (The intervals are recomputed here from the record's ema and atr and from
\* the last bar: s2 = (c - 2h + 4l)/3, s1 = (2l + 2c - h)/3.)
C6_ScoreRule ==
    LevelsDone =>
        LET r     == lv.rec
            c     == LastBar.close
            h     == LastBar.high
            l     == LastBar.low
            emaN  == r.ema[1]
            emaD  == r.ema[2]
            atrN  == r.atr[1]
            atrD  == r.atr[2]
            inAtr == /\ 2 * (emaN * atrD - atrN * emaD) <= 2 * c * emaD * atrD
                     /\ 2 * c * emaD * atrD <= 2 * emaN * atrD - atrN * emaD
            inPiv == /\ c - 2 * h + 4 * l <= 3 * c
                     /\ 3 * c <= 2 * l + 2 * c - h
            flags == (IF r.in_atr_buy THEN 1 ELSE 0)
                     + (IF r.in_pivot_buy THEN 1 ELSE 0)
            base  == IF flags = 2 THEN 10 ELSE IF flags = 1 THEN 5 ELSE 0
        IN  /\ r.close = c
            /\ r.in_atr_buy = inAtr
            /\ r.in_pivot_buy = inPiv
            /\ r.score = base + (IF c <= PRICE_BONUS THEN 3 ELSE 0)
            /\ r.score \in {0, 3, 5, 8, 10, 13}

\* Both flags true and the bonus earned at close = PRICE_BONUS exactly
C6_Witness ==
    /\ LevelsDone
    /\ lv.rec.close = PRICE_BONUS
    /\ lv.rec.in_atr_buy /\ lv.rec.in_pivot_buy
    /\ lv.rec.score = 13

-----------------------------------------------------------------------------
(* The ranking on bounded frames: a frame of up to TOP10_ROWS + RankExtra    *)
(* rows repeats a freely chosen pattern of RankPattern (score, close) pairs; *)
(* the ticker of row i is i, which identifies the row in the output.         *)

RankPattern == 4

RankExtra == 2

RankKinds ==
    {<<13, PRICE_BONUS>>, <<13, PRICE_BONUS - 40>>,
     <<5, PRICE_BONUS>>, <<5, PRICE_BONUS + 40>>}

RankRow(i, kind) ==
    [ticker |-> i, name |-> i, close |-> kind[2],
     buy_pivot |-> FmtBand(1, 2), sell_pivot |-> FmtBand(3, 4),
     buy_atr |-> FmtBand(1, 2), sell_atr |-> FmtBand(3, 4),
     stop |-> 1, atr |-> <<1, ATR_N>>, ema |-> <<1, 1>>,
     score |-> kind[1], in_atr_buy |-> FALSE, in_pivot_buy |-> FALSE]

RankFrames ==
    {[i \in 1..n |-> RankRow(i, p[((i - 1) % RankPattern) + 1])] :
        n \in 0..(TOP10_ROWS + RankExtra), p \in [1..RankPattern -> RankKinds]}

InitRank ==
    /\ pc = "rank"
    /\ rows \in RankFrames
    /\ out = <<>>
    /\ probed = <<>> /\ ref = 1
    /\ cap = NoCap /\ uni = <<>> /\ idx = 0
    /\ df = NoResponse /\ lv = NoResponse
    /\ sheetUniverse = NoSheet /\ sheetTop10 = NoSheet /\ sheetPositions = NoSheet
    /\ alerts = <<>> /\ sent = <<>> /\ logged = <<>>
    /\ exc = "" /\ tgConfigured = FALSE /\ exitCode = -1

Rank ==
    /\ pc = "rank"
    /\ out' = RankedRows(rows)
    /\ pc' = "done"
    /\ UNCHANGED <<probed, ref, cap, uni, idx, df, lv, rows,
                   sheetUniverse, sheetTop10, sheetPositions, alerts, sent,
                   logged, exc, tgConfigured, exitCode>>

NextRank == Rank

SpecRank == InitRank /\ [][NextRank]_vars

\* C4: the ranking returns exactly min(10, len) rows, sorted by score
\* descending then close descending, rows equal on both keys in input
\* order, ranked 1..k in output order.  (Each output row is the input row of
\* its ticker, and no row left out belongs in front of a row kept.)
C4_Ranking ==
    pc = "done" =>
        /\ Len(out) = Min(10, Len(rows))
        /\ \A i \in 1..Len(out) :
              /\ out[i].rank = i
              /\ out[i].ticker \in 1..Len(rows)
              /\ out[i].score = rows[out[i].ticker].score
              /\ out[i].close = rows[out[i].ticker].close
        /\ \A i, j \in 1..Len(out) :
              i < j =>
                 /\ out[i].score >= out[j].score
                 /\ out[i].score = out[j].score => out[i].close >= out[j].close
                 /\ (out[i].score = out[j].score /\ out[i].close = out[j].close)
                        => out[i].ticker < out[j].ticker
        /\ \A t \in 1..Len(rows) :
              (\A i \in 1..Len(out) : out[i].ticker # t) =>
                 \A i \in 1..Len(out) :
                    /\ ~SortsBefore(rows[t], out[i])
                    /\ (rows[t].score = out[i].score
                        /\ rows[t].close = out[i].close) => out[i].ticker < t

\* More than ten rows, with rows tied on both keys on either side of the cut
\* and the input not already in order
C4_Witness ==
    /\ pc = "done"
    /\ Len(rows) > 10 /\ Len(out) = 10
    /\ \E t \in 1..Len(rows) :
          /\ \A i \in 1..Len(out) : out[i].ticker # t
          /\ rows[t].score = out[10].score /\ rows[t].close = out[10].close
    /\ \E i \in 1..9 : out[i].ticker > out[i + 1].ticker

-----------------------------------------------------------------------------
(* build_universe on bounded markets: NTickers tickers, in the provider's   *)
(* order, each with one of the profiles below, under each cap pattern.      *)

NTickers == 5

Tickers == 1..NTickers

\* n bars: `early` before the trailing LIQ_WINDOW bars, `late` in them
LiqBars(n, early, late, withValue) ==
    [kind |-> "bars", hasValue |-> withValue,
     bars |-> [i \in 1..n |->
                  LET v == IF i <= n - LIQ_WINDOW THEN early ELSE late
                  IN  [value |-> IF withValue THEN v ELSE 0,
                       volume |-> v \div 50, close |-> 50]]]

Profiles ==
    { \* too expensive, liquid
      [close |-> MAX_PRICE + 1,
       feed |-> LiqBars(MIN_BARS, MIN_TRADING_VALUE, MIN_TRADING_VALUE, TRUE)],
      \* price and traded value both exactly on their thresholds
      [close |-> MAX_PRICE,
       feed |-> LiqBars(MIN_BARS, 0, MIN_TRADING_VALUE, TRUE)],
      \* the bar fetch raises
      [close |-> PRICE_BONUS, feed |-> [kind |-> "raise"]],
      \* one bar short, however liquid
      [close |-> PRICE_BONUS,
       feed |-> LiqBars(MIN_BARS - 1, 4 * MIN_TRADING_VALUE,
                        4 * MIN_TRADING_VALUE, TRUE)],
      \* liquid before the trailing window only
      [close |-> PRICE_BONUS,
       feed |-> LiqBars(MIN_BARS, 4 * MIN_TRADING_VALUE,
                        MIN_TRADING_VALUE - 1, TRUE)],
      \* no traded-value column: volume * close reaches the threshold
      [close |-> PRICE_BONUS,
       feed |-> LiqBars(MIN_BARS + 1, 0, MIN_TRADING_VALUE, FALSE)] }

\* caps 3 2 1 0 3 ...: not in the provider's order, with equal caps
CapPatterns == { [t \in Tickers |-> (3 * t) % 4] }

Markets ==
    {[kind |-> "table",
      table |-> [t \in Tickers |->
                    [ticker |-> t, cap |-> caps[t], close |-> prof[t].close]],
      feeds |-> [t \in Tickers |-> prof[t].feed]] :
        caps \in CapPatterns, prof \in [Tickers -> Profiles]}

InitUniverse ==
    /\ pc = "build"
    /\ cap \in Markets \cup {[kind |-> "raise"]}
    /\ uni = <<>>
    /\ probed = <<>> /\ ref = 1 /\ idx = 0
    /\ df = NoResponse /\ lv = NoResponse
    /\ rows = <<>> /\ out = <<>>
    /\ sheetUniverse = NoSheet /\ sheetTop10 = NoSheet /\ sheetPositions = NoSheet
    /\ alerts = <<>> /\ sent = <<>> /\ logged = <<>>
    /\ exc = "" /\ tgConfigured = FALSE /\ exitCode = -1

BuildUniverse ==
    /\ pc = "build"
    /\ LET r == build_universe(cap)
       IN  /\ pc' = IF r.kind = "raise" THEN "raised" ELSE "done"
           /\ uni' = IF r.kind = "raise" THEN <<>> ELSE r.uni
    /\ UNCHANGED <<probed, ref, cap, idx, df, lv, rows, out,
                   sheetUniverse, sheetTop10, sheetPositions, alerts, sent,
                   logged, exc, tgConfigured, exitCode>>

NextUniverse == BuildUniverse

SpecUniverse == InitUniverse /\ [][NextUniverse]_vars

\* The claim's notion of a survivor, stated on the market itself
Snapshot(t) ==
    cap.table[CHOOSE i \in 1..Len(cap.table) : cap.table[i].ticker = t]

\* t is among the max(2*TOP_N, floor) largest caps (equal caps in the
\* provider's order)
OverFetched(t) ==
    Cardinality({u \in Tickers :
                    \/ Snapshot(u).cap > Snapshot(t).cap
                    \/ Snapshot(u).cap = Snapshot(t).cap /\ u < t})
        < Max(2 * TOP_N, OVERFETCH_MIN)

TradedValue(f, i) ==
    IF f.hasValue THEN f.bars[i].value ELSE f.bars[i].volume * f.bars[i].close

MeanValueOk(t) ==
    LET f == cap.feeds[t]
    IN  /\ f.kind = "bars"
        /\ Len(f.bars) >= 25
        /\ SumSeq([k \in 1..20 |-> TradedValue(f, Len(f.bars) - 20 + k)])
              >= 20 * MIN_TRADING_VALUE

Eligible(t) == Snapshot(t).close <= MAX_PRICE /\ MeanValueOk(t)

Survivors == {t \in Tickers : OverFetched(t) /\ Eligible(t)}

UniTickers == {uni[i].ticker : i \in 1..Len(uni)}

\* C8: build_universe returns exactly the TOP_N highest-cap survivors (all
\* of them if fewer), a survivor being an over-fetched ticker with close <=
\* MAX_PRICE, a successful fetch of at least 25 bars and a trailing-20 mean
\* traded value >= MIN_TRADING_VALUE; a short or failed fetch excludes the
\* ticker without aborting the build; no ticker appears twice.
C8_Universe ==
    /\ pc = "raised" => cap.kind = "raise"
    /\ pc = "done" =>
          /\ cap.kind = "table"
          /\ LET S == Survivors
             IN  /\ UniTickers \subseteq S
                 /\ Len(uni) = Min(TOP_N, Cardinality(S))
                 /\ \A t \in S \ UniTickers :
                       \A i \in 1..Len(uni) : uni[i].cap >= Snapshot(t).cap
          /\ \A i, j \in 1..Len(uni) :
                i < j => uni[i].ticker # uni[j].ticker /\ uni[i].cap >= uni[j].cap

\* More survivors than TOP_N, a ticker dropped for a raising fetch and an
\* eligible ticker outside the over-fetch
C8_Witness ==
    /\ pc = "done"
    /\ Len(uni) = TOP_N
    /\ Cardinality(Survivors) > TOP_N
    /\ \E t \in Tickers : OverFetched(t) /\ cap.feeds[t].kind = "raise"
    /\ \E t \in Tickers : ~OverFetched(t) /\ Eligible(t)

-----------------------------------------------------------------------------
(* check_positions_and_alert on bounded sheets.  Every text and cell comes  *)
(* with what it means, which the property below is stated against.  The    *)
(* universe sheet holds at least one record, as it does once                *)
(* write_universe_and_top10 has run; average costs are not negative.        *)

MaxPositions == 2

BandCases ==
    { [text |-> FmtBand(1025, 1050), ok |-> TRUE, hi |-> 1050],
      [text |-> FmtBand(-5, 900), ok |-> TRUE, hi |-> 900],
      [text |-> <<"1", "0", "2", "5", "~">>, ok |-> FALSE, hi |-> 0],
      [text |-> <<"1", "0", "5", "0">>, ok |-> FALSE, hi |-> 0],
      [text |-> <<"9", "~", "x", "1">>, ok |-> FALSE, hi |-> 0] }

\* an average cost n/d, or none
CostCases ==
    { [cell |-> NumCell(900, 1), ok |-> TRUE, n |-> 900, d |-> 1],
      [cell |-> NumCell(1050, 1), ok |-> TRUE, n |-> 1050, d |-> 1],
      [cell |-> NumCell(2099, 2), ok |-> TRUE, n |-> 2099, d |-> 2],
      [cell |-> TextCell(<<" ", "8", "9", "9", ".", "5", " ">>), ok |-> TRUE,
       n |-> 1799, d |-> 2],
      [cell |-> TextCell(<<>>), ok |-> FALSE, n |-> 0, d |-> 1],
      [cell |-> TextCell(<<" ">>), ok |-> FALSE, n |-> 0, d |-> 1],
      [cell |-> TextCell(<<"1", ",", "0", "0", "0">>), ok |-> FALSE,
       n |-> 0, d |-> 1] }

\* the positions of the sheet: tickers 1 and 2 may have a record, 3 has none
PositionRows ==
    {[ticker |-> 1, name |-> NoName, qty |-> 1, avg_cost |-> c.cell, note |-> 0] :
        c \in CostCases}
    \cup {[ticker |-> 2, name |-> 2, qty |-> 1, avg_cost |-> NumCell(900, 1),
           note |-> 0],
          [ticker |-> 3, name |-> 3, qty |-> 1, avg_cost |-> NumCell(900, 1),
           note |-> 0]}

PositionSheets ==
    {NoSheet}
    \cup {[exists |-> TRUE, header |-> POSITIONS_HEADERS, records |-> ps] :
             ps \in UNION {[1..n -> PositionRows] : n \in 0..MaxPositions}}

\* the record of ticker t, dated d days back
UniverseRows(t) ==
    {[date |-> DateText(d), ticker |-> t, name |-> t, sell_atr |-> b.text] :
        d \in {1, PROBE_DAYS + 1}, b \in BandCases}

UniverseSheets ==
    {[exists |-> TRUE, header |-> UNIVERSE_HEADERS, records |-> rs] :
        rs \in {<<r>> : r \in UniverseRows(1)}
               \cup {<<r1, r2>> : r1 \in UniverseRows(1), r2 \in UniverseRows(2)}}

InitPositions ==
    /\ pc = "check"
    /\ ref = 1
    /\ sheetPositions \in PositionSheets
    /\ sheetUniverse \in UniverseSheets
    /\ alerts = <<>>
    /\ probed = <<>>
    /\ cap = NoCap /\ uni = <<>> /\ idx = 0
    /\ df = NoResponse /\ lv = NoResponse
    /\ rows = <<>> /\ out = <<>>
    /\ sheetTop10 = NoSheet
    /\ sent = <<>> /\ logged = <<>>
    /\ exc = "" /\ tgConfigured = FALSE /\ exitCode = -1

CheckPositions ==
    /\ pc = "check"
    /\ LET r == check_positions(sheetPositions, sheetUniverse, ref)
       IN  /\ alerts' = r.alerts
           /\ pc' = IF r.kind = "raise" THEN "raised" ELSE "done"
    /\ sheetPositions' = ensure_worksheet(sheetPositions, POSITIONS_HEADERS)
    /\ UNCHANGED <<probed, ref, cap, uni, idx, df, lv, rows, out,
                   sheetUniverse, sheetTop10, sent, logged, exc, tgConfigured,
                   exitCode>>

NextPositions == CheckPositions

SpecPositions == InitPositions /\ [][NextPositions]_vars

BandMeaning(text) == CHOOSE b \in BandCases : b.text = text

CostMeaning(cell) == CHOOSE c \in CostCases : c.cell = cell

\* the records a position is joined with: those dated the reference date,
\* or all of them when none is
JoinRecords ==
    LET recs  == sheetUniverse.records
        dated == {i \in 1..Len(recs) : recs[i].date = DateText(ref)}
    IN  {recs[i] : i \in (IF dated = {} THEN 1..Len(recs) ELSE dated)}

\* position p is to be flagged on record u
ToFlag(p, u) ==
    /\ u.ticker = p.ticker
    /\ BandMeaning(u.sell_atr).ok
    /\ CostMeaning(p.avg_cost).ok
    /\ CostMeaning(p.avg_cost).n
          < BandMeaning(u.sell_atr).hi * CostMeaning(p.avg_cost).d

\* C7: a position produces an alert line if and only if its ticker joins to
\* a record whose sell_atr parses to an integer upper bound, its average
\* cost is non-blank and parseable, and average_cost < upper bound
\* (strictly); every other position is skipped without raising and the
\* other positions' alerts are as they would be without it.
C7_Alerts ==
    /\ pc # "raised"
    /\ pc = "done" =>
          LET pos == sheetPositions.records
          IN  /\ \A i \in 1..Len(pos) :
                    (\E u \in JoinRecords : ToFlag(pos[i], u)) <=>
                       \E k \in 1..Len(alerts) : \E u \in JoinRecords :
                          /\ alerts[k].ticker = pos[i].ticker
                          /\ u.ticker = pos[i].ticker
                          /\ alerts[k].sell_hi = BandMeaning(u.sell_atr).hi
                          /\ CostMeaning(pos[i].avg_cost).ok
                          /\ alerts[k].avg_cost * CostMeaning(pos[i].avg_cost).d
                                <= CostMeaning(pos[i].avg_cost).n
                          /\ CostMeaning(pos[i].avg_cost).n
                                < (alerts[k].avg_cost + 1)
                                   * CostMeaning(pos[i].avg_cost).d
              /\ Len(alerts) =
                    Cardinality({<<i, u>> \in (1..Len(pos)) \X JoinRecords :
                                    ToFlag(pos[i], u)})

\* Two positions on the same record: one flagged at an average cost just
\* below the bound, the other not flagged
C7_Witness ==
    /\ pc = "done"
    /\ Len(sheetPositions.records) = 2
    /\ Len(alerts) = 1
    /\ alerts[1].sell_hi = 1050 /\ alerts[1].avg_cost = 1049
    /\ \E i \in 1..2 : sheetPositions.records[i].avg_cost = NumCell(1050, 1)

-----------------------------------------------------------------------------
(* yesterday_trading_date on every pattern of the seven probes *)

InitDate ==
    /\ pc = "date"
    /\ probed \in [1..PROBE_DAYS -> ProbeResults]
    /\ ref = 0
    /\ cap = NoCap /\ uni = <<>> /\ idx = 0
    /\ df = NoResponse /\ lv = NoResponse
    /\ rows = <<>> /\ out = <<>>
    /\ sheetUniverse = NoSheet /\ sheetTop10 = NoSheet /\ sheetPositions = NoSheet
    /\ alerts = <<>> /\ sent = <<>> /\ logged = <<>>
    /\ exc = "" /\ tgConfigured = FALSE /\ exitCode = -1

YesterdayTradingDate ==
    /\ pc = "date"
    /\ ref' = yesterday_trading_date(probed)
    /\ pc' = "done"
    /\ UNCHANGED <<probed, cap, uni, idx, df, lv, rows, out, sheetUniverse,
                   sheetTop10, sheetPositions, alerts, sent, logged, exc,
                   tgConfigured, exitCode>>

NextDate == YesterdayTradingDate

SpecDate == InitDate /\ [][NextDate]_vars

\* C9: the reference date is always a date for which the benchmark has
\* market data, the most recent of the previous 7 calendar days whose probe
\* returned bars, for every pattern of probe results including all seven
\* probes being empty or failing.
C9_ReferenceDateHasData ==
    pc = "done" =>
        /\ ref \in 1..PROBE_DAYS
        /\ probed[ref] = "bars"
        /\ \A i \in 1..(ref - 1) : probed[i] # "bars"

\* When some probe returned bars the reference date is the most recent such
\* day
MostRecentDayWithBars ==
    (pc = "done" /\ \E i \in 1..PROBE_DAYS : probed[i] = "bars") =>
        /\ probed[ref] = "bars"
        /\ \A i \in 1..(ref - 1) : probed[i] # "bars"

\* All seven probes empty or failing, some of each: the date returned is
\* the previous calendar for which the probe had no bars
C9_Witness ==
    /\ pc = "done"
    /\ \A i \in 1..PROBE_DAYS : probed[i] # "bars"
    /\ \E i \in 1..PROBE_DAYS : probed[i] = "empty"
    /\ \E i \in 1..PROBE_DAYS : probed[i] = "raise"
    /\ ref = 1

-----------------------------------------------------------------------------
(* One run of main.  The provider's answers, the store's and the           *)
(* notification channel's are chosen when the run asks for them.            *)

\* probes: a holiday stretch before a trading day; nothing on any day
MainProbePatterns ==
    {[i \in 1..PROBE_DAYS |-> IF i < 3 THEN "empty" ELSE "bars"],
     [i \in 1..PROBE_DAYS |-> IF i % 2 = 0 THEN "empty" ELSE "raise"]}

Survivor ==
    [close |-> MAX_PRICE,
     feed |-> LiqBars(MIN_BARS, 0, MIN_TRADING_VALUE, TRUE)]

TooExpensive ==
    [close |-> MAX_PRICE + 1,
     feed |-> LiqBars(MIN_BARS, MIN_TRADING_VALUE, MIN_TRADING_VALUE, TRUE)]

\* the market when ticker 1 has profile p1 and every other ticker profile p
MarketOf(p1, p) ==
    LET prof(t) == IF t = 1 THEN p1 ELSE p
    IN  [kind |-> "table",
         table |-> [t \in Tickers |->
                       [ticker |-> t, cap |-> (3 * t) % 4,
                        close |-> prof(t).close]],
         feeds |-> [t \in Tickers |-> prof(t).feed]]

MainMarkets ==
    {[kind |-> "raise"], MarketOf(Survivor, Survivor),
     MarketOf(Survivor, TooExpensive), MarketOf(TooExpensive, TooExpensive)}

\* a fetch that raises, a series too short, and two series that give records
MainResponses ==
    {[kind |-> "raise"],
     [kind |-> "bars", bars |-> [i \in 1..EMA_N |-> Flat(PRICE_BONUS)]],
     [kind |-> "bars",
      bars |-> [i \in 1..(EMA_N + 1) |->
                   [high |-> PRICE_BONUS + 40, low |-> PRICE_BONUS - 40,
                    close |-> PRICE_BONUS]]],
     [kind |-> "bars",
      bars |-> [i \in 1..(EMA_N + 1) |-> Flat(PRICE_BONUS + 40)]]}

StoreAnswers == {"ok", "APIError"}

\* rows left in the tables by an earlier run, one more than a run can write
StaleRecords ==
    [i \in 1..(TOP_N + 1) |->
        [date |-> DateText(PROBE_DAYS + 1), ticker |-> i, name |-> i,
         sell_atr |-> FmtBand(1025, 1050)]]

MainPositionSheets ==
    {NoSheet,
     [exists |-> TRUE, header |-> POSITIONS_HEADERS, records |-> <<>>],
     [exists |-> TRUE, header |-> POSITIONS_HEADERS,
      records |->
         <<[ticker |-> 1, name |-> NoName, qty |-> 1,
            avg_cost |-> NumCell(900, 1), note |-> 0],
           [ticker |-> 1, name |-> 1, qty |-> 1,
            avg_cost |-> NumCell(10 * MAX_PRICE, 1), note |-> 0],
           [ticker |-> NTickers + 1, name |-> NoName, qty |-> 1,
            avg_cost |-> TextCell(<<>>), note |-> 0]>>]}

Init ==
    /\ pc = "date"
    /\ probed = <<>> /\ ref = 0
    /\ cap = NoCap /\ uni = <<>> /\ idx = 0
    /\ df = NoResponse /\ lv = NoResponse
    /\ rows = <<>> /\ out = <<>>
    /\ sheetUniverse \in
          {NoSheet, [exists |-> TRUE, header |-> UNIVERSE_HEADERS,
                     records |-> StaleRecords]}
    /\ sheetTop10 \in
          {NoSheet, [exists |-> TRUE, header |-> TOP10_HEADERS,
                     records |-> StaleRecords]}
    /\ sheetPositions \in MainPositionSheets
    /\ alerts = <<>> /\ sent = <<>> /\ logged = <<>>
    /\ exc = ""
    /\ tgConfigured \in BOOLEAN
    /\ exitCode = -1

\* an exception leaves the try block of main
Raise(e) == exc' = e /\ pc' = "fatal"

\* lines 319-320
ReferenceDate ==
    /\ pc = "date"
    /\ \E probes \in MainProbePatterns :
          /\ probed' = probes
          /\ ref' = yesterday_trading_date(probes)
    /\ logged' = Append(logged, "INFO ref")
    /\ pc' = "universe"
    /\ UNCHANGED <<cap, uni, idx, df, lv, rows, out, sheetUniverse, sheetTop10,
                   sheetPositions, alerts, sent, exc, tgConfigured, exitCode>>

\* lines 322-326
MainBuildUniverse ==
    /\ pc = "universe"
    /\ \E m \in MainMarkets :
          /\ cap' = m
          /\ LET r == build_universe(m)
             IN  IF r.kind = "raise"
                 THEN /\ Raise("build_universe")
                      /\ logged' = Append(logged, "STEP universe")
                      /\ UNCHANGED uni
                 ELSE IF r.uni = <<>>
                 THEN /\ Raise("empty universe")
                      /\ logged' = Append(logged, "STEP universe")
                      /\ UNCHANGED uni
                 ELSE /\ uni' = r.uni
                      /\ logged' = logged \o <<"STEP universe", "INFO universe",
                                             "STEP levels">>
                      /\ pc' = "levels"
                      /\ UNCHANGED exc
    /\ UNCHANGED <<probed, ref, idx, df, lv, rows, out, sheetUniverse,
                   sheetTop10, sheetPositions, alerts, sent, tgConfigured,
                   exitCode>>

\* lines 330-333: one turn of the loop
MainCalcLevels ==
    /\ pc = "levels"
    /\ idx < Len(uni)
    /\ \E resp \in MainResponses :
          /\ df' = resp
          /\ LET r == calc_levels(uni[idx + 1].ticker, resp)
             IN  /\ lv' = r
                 /\ IF r.kind = "raise"
                    THEN Raise("calc_levels") /\ UNCHANGED <<idx, rows>>
                    ELSE /\ idx' = idx + 1
                         /\ rows' = IF r.kind = "rec" THEN Append(rows, r.rec)
                                    ELSE rows
                         /\ UNCHANGED <<pc, exc>>
    /\ UNCHANGED <<probed, ref, cap, uni, out, sheetUniverse, sheetTop10,
                   sheetPositions, alerts, sent, logged, tgConfigured, exitCode>>

\* lines 334-335, after the loop
CheckRows ==
    /\ pc = "levels"
    /\ idx = Len(uni)
    /\ IF NoRows(rows) THEN Raise("no rows")
       ELSE pc' = "connect" /\ UNCHANGED exc
    /\ UNCHANGED <<probed, ref, cap, uni, idx, df, lv, rows, out, sheetUniverse,
                   sheetTop10, sheetPositions, alerts, sent, logged,
                   tgConfigured, exitCode>>

\* write_universe_and_top10, lines 238-245: connect, open, make sure of the
\* three worksheets
Connect ==
    /\ pc = "connect"
    /\ \E answer \in StoreAnswers :
          IF answer = "ok"
          THEN /\ sheetUniverse' = ensure_worksheet(sheetUniverse, UNIVERSE_HEADERS)
               /\ sheetTop10' = ensure_worksheet(sheetTop10, TOP10_HEADERS)
               /\ sheetPositions' =
                     ensure_worksheet(sheetPositions, POSITIONS_HEADERS)
               /\ logged' =
                     logged \o <<"STEP sheets", "STEP worksheets">>
                       \o (IF sheetUniverse.exists THEN <<>>
                           ELSE <<"INFO universe created">>)
                       \o (IF sheetTop10.exists THEN <<>>
                           ELSE <<"INFO top10 created">>)
                       \o (IF sheetPositions.exists THEN <<>>
                           ELSE <<"INFO positions created">>)
               /\ pc' = "uni_clear"
               /\ UNCHANGED exc
          ELSE /\ Raise("connect")
               /\ logged' = Append(logged, "STEP sheets")
               /\ UNCHANGED <<sheetUniverse, sheetTop10, sheetPositions>>
    /\ UNCHANGED <<probed, ref, cap, uni, idx, df, lv, rows, out, alerts, sent,
                   tgConfigured, exitCode>>

\* lines 247-250
UniverseClear ==
    /\ pc = "uni_clear"
    /\ logged' = Append(logged, "STEP universe sheet")
    /\ \E answer \in StoreAnswers :
          IF answer = "ok"
          THEN /\ sheetUniverse' = Clear(sheetUniverse)
               /\ pc' = "uni_update"
               /\ UNCHANGED exc
          ELSE Raise("universe clear") /\ UNCHANGED sheetUniverse
    /\ UNCHANGED <<probed, ref, cap, uni, idx, df, lv, rows, out, sheetTop10,
                   sheetPositions, alerts, sent, tgConfigured, exitCode>>

\* line 251
UniverseUpdate ==
    /\ pc = "uni_update"
    /\ \E answer \in StoreAnswers :
          IF answer = "ok"
          THEN /\ sheetUniverse' =
                     Update(sheetUniverse, UNIVERSE_HEADERS, DatedFrame(rows, ref))
               /\ pc' = "top_clear"
               /\ UNCHANGED exc
          ELSE Raise("universe update") /\ UNCHANGED sheetUniverse
    /\ UNCHANGED <<probed, ref, cap, uni, idx, df, lv, rows, out, sheetTop10,
                   sheetPositions, alerts, sent, logged, tgConfigured, exitCode>>

\* lines 253-257
Top10Clear ==
    /\ pc = "top_clear"
    /\ logged' = Append(logged, "STEP top10")
    /\ out' = RankedRows(DatedFrame(rows, ref))
    /\ \E answer \in StoreAnswers :
          IF answer = "ok"
          THEN /\ sheetTop10' = Clear(sheetTop10)
               /\ pc' = "top_update"
               /\ UNCHANGED exc
          ELSE Raise("top10 clear") /\ UNCHANGED sheetTop10
    /\ UNCHANGED <<probed, ref, cap, uni, idx, df, lv, rows, sheetUniverse,
                   sheetPositions, alerts, sent, tgConfigured, exitCode>>

\* line 258
Top10Update ==
    /\ pc = "top_update"
    /\ \E answer \in StoreAnswers :
          IF answer = "ok"
          THEN /\ sheetTop10' = Update(sheetTop10, TOP10_HEADERS, out)
               /\ pc' = "top_send"
               /\ UNCHANGED exc
          ELSE Raise("top10 update") /\ UNCHANGED sheetTop10
    /\ UNCHANGED <<probed, ref, cap, uni, idx, df, lv, rows, out, sheetUniverse,
                   sheetPositions, alerts, sent, logged, tgConfigured, exitCode>>

\* lines 261-264
Top10Send ==
    /\ pc = "top_send"
    /\ \E answer \in TelegramAnswers :
          LET r == send_telegram("top10", answer, tgConfigured, logged, sent)
          IN  /\ sent' = r.sent
              /\ IF r.raised
                 THEN Raise("telegram top10") /\ logged' = r.logged
                 ELSE /\ logged' = Append(r.logged, "STEP write done")
                      /\ pc' = "positions"
                      /\ UNCHANGED exc
    /\ UNCHANGED <<probed, ref, cap, uni, idx, df, lv, rows, out, sheetUniverse,
                   sheetTop10, sheetPositions, alerts, tgConfigured, exitCode>>

\* check_positions_and_alert, lines 267-308 and, without alerts, 313
PositionsCheck ==
    /\ pc = "positions"
    /\ \E answer \in StoreAnswers :
          IF answer = "ok"
          THEN LET r == check_positions(sheetPositions, sheetUniverse, ref)
               IN  /\ sheetPositions' =
                         ensure_worksheet(sheetPositions, POSITIONS_HEADERS)
                   /\ alerts' = r.alerts
                   /\ IF r.kind = "raise"
                      THEN /\ Raise("positions")
                           /\ logged' = Append(logged, "STEP positions")
                      ELSE /\ UNCHANGED exc
                           /\ pc' = IF r.alerts # <<>> THEN "pos_send"
                                    ELSE "success"
                           /\ logged' =
                                 logged \o <<"STEP positions">>
                                   \o (IF r.kind = "created"
                                       THEN <<"INFO positions missing",
                                              "INFO positions created">>
                                       ELSE IF r.kind = "empty"
                                       THEN <<"INFO positions empty">>
                                       ELSE IF r.alerts = <<>>
                                       THEN <<"STEP positions done">>
                                       ELSE <<>>)
          ELSE /\ Raise("positions connect")
               /\ logged' = Append(logged, "STEP positions")
               /\ UNCHANGED <<sheetPositions, alerts>>
    /\ UNCHANGED <<probed, ref, cap, uni, idx, df, lv, rows, out, sheetUniverse,
                   sheetTop10, sent, tgConfigured, exitCode>>

\* lines 310-313
PositionsSend ==
    /\ pc = "pos_send"
    /\ \E answer \in TelegramAnswers :
          LET r == send_telegram("alerts", answer, tgConfigured, logged, sent)
          IN  /\ sent' = r.sent
              /\ IF r.raised
                 THEN Raise("telegram alerts") /\ logged' = r.logged
                 ELSE /\ logged' = Append(r.logged, "STEP positions done")
                      /\ pc' = "success"
                      /\ UNCHANGED exc
    /\ UNCHANGED <<probed, ref, cap, uni, idx, df, lv, rows, out, sheetUniverse,
                   sheetTop10, sheetPositions, alerts, tgConfigured, exitCode>>

\* line 340 and the return of main
Success ==
    /\ pc = "success"
    /\ logged' = Append(logged, "SUCCESS")
    /\ exitCode' = 0
    /\ pc' = "exit"
    /\ UNCHANGED <<probed, ref, cap, uni, idx, df, lv, rows, out, sheetUniverse,
                   sheetTop10, sheetPositions, alerts, sent, exc, tgConfigured>>

\* lines 342-350: the handler of main
Fatal ==
    /\ pc = "fatal"
    /\ \E answer \in TelegramAnswers :
          LET r == send_telegram("error", answer, tgConfigured,
                                 Append(logged, "FATAL"), sent)
          IN  /\ logged' = r.logged
              /\ sent' = r.sent
              /\ exitCode' = ExitStatus(r.raised)
    /\ pc' = "exit"
    /\ UNCHANGED <<probed, ref, cap, uni, idx, df, lv, rows, out, sheetUniverse,
                   sheetTop10, sheetPositions, alerts, exc, tgConfigured>>

Next ==
    \/ ReferenceDate
    \/ MainBuildUniverse
    \/ MainCalcLevels
    \/ CheckRows
    \/ Connect
    \/ UniverseClear
    \/ UniverseUpdate
    \/ Top10Clear
    \/ Top10Update
    \/ Top10Send
    \/ PositionsCheck
    \/ PositionsSend
    \/ Success
    \/ Fatal

Spec == Init /\ [][Next]_vars

-----------------------------------------------------------------------------
(* Properties of a run of main, under Spec *)

Logged(tag) == \E i \in 1..Len(logged) : logged[i] = tag

Tables == <<sheetUniverse, sheetTop10, sheetPositions>>

\* main has left its try block by an exception, or has ended
Left == pc \in {"fatal", "exit"}

\* the universe table has been updated by this run
UniverseWritten ==
    \/ pc \in {"top_clear", "top_update", "top_send", "positions", "pos_send",
               "success"}
    \/ Left /\ exc \in {"top10 clear", "top10 update", "telegram top10",
                        "positions", "positions connect", "telegram alerts"}
    \/ pc = "exit" /\ exc = ""

\* the top-10 table has been updated by this run
Top10Written ==
    \/ pc \in {"top_send", "positions", "pos_send", "success"}
    \/ Left /\ exc \in {"telegram top10", "positions", "positions connect",
                        "telegram alerts"}
    \/ pc = "exit" /\ exc = ""

\* C1: a fetch failure in calc_levels for one ticker only skips that ticker:
\* the loop goes on to the remaining tickers and the run is never aborted
\* by that failure.
C1_FetchFailureSkipsTicker ==
    (pc \notin {"date", "universe"} /\ df.kind = "raise") =>
        /\ exc # "calc_levels"
        /\ pc = "levels" \/ idx = Len(uni)

\* The fetch of a universe ticker raised and main is in its handler, the
\* remaining tickers not computed
C1_Witness ==
    /\ pc = "fatal" /\ exc = "calc_levels"
    /\ df.kind = "raise"
    /\ idx + 1 < Len(uni)

\* the run is past the level loop without a single LevelRecord (the universe
\* was empty, or no ticker gave a record)
EmptyResult == pc \notin {"date", "universe", "levels"} /\ rows = <<>>

\* C2: with an empty universe, or no LevelRecord for any universe ticker,
\* the run never reaches ranking/persistence: no table is cleared or
\* written, no top-N message is sent, no position is evaluated, and the run
\* ends with a non-zero exit status.
C2_EmptyResultAborts ==
    /\ [](EmptyResult =>
            /\ Left /\ exc # ""
            /\ alerts = <<>>
            /\ \A i \in 1..Len(sent) : sent[i].text = "error"
            /\ ~Logged("STEP sheets") /\ ~Logged("STEP positions")
            /\ pc = "exit" => exitCode = 1)
    /\ [][(pc \in {"date", "universe", "levels"} \/ EmptyResult) =>
             UNCHANGED <<Tables, alerts, out>>]_vars

\* A universe of TOP_N tickers none of which gave a record: exit status 1
C2_Witness ==
    /\ pc = "exit" /\ exitCode = 1
    /\ Len(uni) = TOP_N /\ idx = Len(uni) /\ rows = <<>>
    /\ exc = "no rows"

\* the error notification was attempted after the FATAL log line
NotifyAttempted ==
    \E k \in 1..Len(logged) :
        /\ logged[k] = "FATAL"
        /\ \E j \in (k + 1)..Len(logged) :
              logged[j] \in {"WARN telegram", "DEBUG telegram post"}
        /\ tgConfigured =>
              sent # <<>> /\ sent[Len(sent)].text = "error"

\* every step of a run has been done
AllStepsDone ==
    /\ UniverseWritten /\ Top10Written
    /\ rows # <<>>
    /\ Len(sheetUniverse.records) = Len(rows)
    /\ sheetTop10.records = out
    /\ Logged("STEP write done") /\ Logged("STEP positions")
    /\ tgConfigured =>
          \E i \in 1..Len(sent) : sent[i].text = "top10" /\ sent[i].answer = "200"
    /\ (tgConfigured /\ alerts # <<>>) =>
          \E i \in 1..Len(sent) : sent[i].text = "alerts" /\ sent[i].answer = "200"
    /\ Logged("SUCCESS")

\* C3: every run-level failure aborts the remaining steps, is logged, is
\* followed by an attempt to send an error notification, and the process
\* then always exits with non-zero status, also when the error notification
\* itself fails; a run exits with success only if every step completed.
C3_FailureHandling ==
    /\ [](exc # "" => Left)
    /\ [][exc # "" => UNCHANGED <<Tables, alerts, rows, out, exc>>]_vars
    /\ []((pc = "exit" /\ exc # "") =>
             exitCode = 1 /\ Logged("FATAL") /\ NotifyAttempted /\ ~Logged("SUCCESS"))
    /\ []((pc = "exit" /\ exitCode = 0) => exc = "" /\ AllStepsDone)
    /\ [](pc = "fatal" => ENABLED Fatal)
    /\ [][pc = "fatal" => pc' = "exit" /\ exitCode' = 1]_vars

\* The top-10 message was rejected and so was the error notification: the
\* run has ended with status 1
C3_Witness ==
    /\ pc = "exit" /\ exitCode = 1
    /\ exc = "telegram top10"
    /\ Len(sent) = 2
    /\ sent[2].text = "error" /\ sent[2].answer # "200"

\* the records of the universe table dated the reference date
DatedRef ==
    {i \in 1..Len(sheetUniverse.records) :
        sheetUniverse.records[i].date = DateText(ref)}

\* C10: whatever the two tables held before, once the run has updated them
\* the universe table holds exactly the header and one row per LevelRecord
\* of the run, each dated the reference date, and the top-10 table exactly
\* the header and the ranked rows of the run; so when the positions are
\* evaluated the records dated the reference date are not empty and the
\* fallback to all records is not taken.
C10_TablesOverwritten ==
    /\ UniverseWritten =>
          /\ sheetUniverse.exists
          /\ sheetUniverse.header = UNIVERSE_HEADERS
          /\ Len(sheetUniverse.records) = Len(rows)
          /\ \A i \in 1..Len(rows) :
                /\ sheetUniverse.records[i].date = DateText(ref)
                /\ \A f \in DOMAIN rows[i] :
                      sheetUniverse.records[i][f] = rows[i][f]
          /\ DatedRef # {}
    /\ Top10Written =>
          /\ sheetTop10.exists
          /\ sheetTop10.header = TOP10_HEADERS
          /\ Len(sheetTop10.records) = Min(TOP10_ROWS, Len(rows))
          /\ sheetTop10.records = out
          /\ \A i \in 1..Len(out) :
                /\ out[i].rank = i
                /\ \E j \in 1..Len(rows) : rows[j].ticker = out[i].ticker

\* Both tables existed before the run, with more rows than the run wrote;
\* the positions have been evaluated against the one record of the run
C10_Witness ==
    /\ pc = "pos_send"
    /\ ~Logged("INFO universe created") /\ ~Logged("INFO top10 created")
    /\ Len(rows) = 1
    /\ Len(sheetUniverse.records) = 1 /\ Len(sheetTop10.records) = 1
    /\ alerts # <<>>

=============================================================================
